---- MODULE Spec2Model ----
(***************************************************************************)
(* A state-machine model of src/main.py, the daily economic briefing       *)
(* service: calendar resolution, market snapshot, news aggregation,        *)
(* briefing generation with model fallback, and Telegram delivery.         *)
(*                                                                         *)
(* Every function of the program has a frame variable holding its          *)
(* parameters and locals under the names the source gives them.  The       *)
(* variable "world" holds what the program reads but never writes: the     *)
(* command line, the clock, the environment variables, the two holiday     *)
(* calendars, and the weather: which answers the external services may     *)
(* give.  The variable "out" is the history of what the program did to the *)
(* outside: the calls it made of the services, and the lines it logged.    *)
(***************************************************************************)
EXTENDS Integers, Sequences, FiniteSets, TLC

VARIABLES pc, world, m, ch, md, fn, gb, st, out

vars == <<pc, world, m, ch, md, fn, gb, st, out>>

(***************************************************************************)
(* Values                                                                  *)
(***************************************************************************)

\* Python's None, where the value it stands in for is a string.
None == "None"

\* Python's None, where the value it stands in for is a holiday name.
NoName == <<>>

\* Dates are proleptic Gregorian ordinals (date.toordinal()); 738886 is
\* 2024-01-01, a Monday.
FirstDay == 738886

\* The number of consecutive reference dates explored.
DateSpan == 7

Dates == FirstDay .. (FirstDay + DateSpan - 1)

\* date.weekday(): Monday is 0 and Sunday is 6.
weekday(d) == (d + 6) % 7

\* A calendar maps the dates it contains to holiday names; a name is
\* modelled by the calendar's tag and the date it names.
HolidayName(tag, d) == <<tag, d>>

\* The calendars the holidays library may hold: no holiday near the
\* reference date, or one holiday on some day of the window or of the three
\* days before it.
CalendarDays == (FirstDay - 3) .. (FirstDay + DateSpan - 1)

Calendars == {{}} \cup {{d} : d \in CalendarDays}

\* The longest command line explored.
MaxArgs == 3

ArgLists(tokens) == UNION {[1..n -> tokens] : n \in 0..MaxArgs}

\* datetime.strptime(date_str, "%Y-%m-%d").date(): the ordinal of a date
\* string, or 0 for a string strptime rejects with ValueError.
ParseDate(s) ==
    CASE s = "2024-01-06" -> 738891
      [] s = "2024-01-07" -> 738892
      [] OTHER -> 0

\* list.index(tok): the position (1-based here) of the first occurrence.
FirstIndex(args, tok) ==
    CHOOSE i \in 1..Len(args) :
        /\ args[i] = tok
        /\ \A j \in 1..(i - 1) : args[j] # tok

Contains(args, tok) == \E i \in 1..Len(args) : args[i] = tok

(***************************************************************************)
(* The external services                                                   *)
(***************************************************************************)

\* What ticker.history(period="5d") may do (line 103): return rows, return
\* an empty frame, or raise.
QuoteOutcomes == {"rows", "empty", "raise"}

\* The article links the feeds may carry.
Links == {"link1", "link2"}

\* A feed entry: its link, and whether feedparser gave it every attribute
\* the loop of lines 220-237 reads ("complete"), no title, or no published
\* date.
EntryShapes == {"complete", "no_title", "no_published"}

Entries == [link : Links, shape : EntryShapes]

\* The longest feed explored: one entry more than the loop takes.
MaxFeedLen == 4

Feeds == UNION {[1..n -> Entries] : n \in 0..MaxFeedLen}

\* What fetching and parsing one feed may do (lines 216-217): raise, or
\* return entries.
FeedOutcomes ==
    {[ok |-> FALSE, entries |-> <<>>]} \cup {[ok |-> TRUE, entries |-> f] : f \in Feeds}

\* What scrape_article_content may return (lines 150, 154): text of at most
\* 800 characters, the empty string, or None after a logged failure.
ScrapeOutcomes == {"text", "empty", None}

\* What one call of generate_content may do (lines 468-472): return text,
\* raise an exception whose message contains "429", or raise any other
\* exception.
GenerationOutcomes == {"success", "429", "error"}

\* What one requests.post followed by raise_for_status may do (lines
\* 506-507, 516-517): a 2xx answer, a 400 answer, another 4xx or 5xx answer,
\* or a transport error (a RequestException raised by post itself).
SendOutcomes == {"200", "400", "500", "transport"}

Article(link) == [link |-> link, shape |-> "complete"]

\* The answers open to the services under world.weather.  Under "any" every
\* service may give any answer at any call.  The other weathers are those
\* of whole runs: all is well ("fair"), every source fails ("storm"), or
\* the sources answer poorly ("drizzle", "gusts").
Answers(weather) ==
    CASE weather = "any" ->
            [quotes |-> QuoteOutcomes, feeds |-> FeedOutcomes,
             scrapes |-> ScrapeOutcomes, generations |-> GenerationOutcomes,
             deliveries |-> SendOutcomes]
      [] weather = "fair" ->
            [quotes |-> {"rows"},
             feeds |-> {[ok |-> TRUE, entries |-> <<Article("link1"), Article("link2")>>]},
             scrapes |-> {"text"}, generations |-> {"success"},
             deliveries |-> {"200", "400"}]
      [] weather = "storm" ->
            [quotes |-> {"raise"},
             feeds |-> {[ok |-> FALSE, entries |-> <<>>]},
             scrapes |-> {None}, generations |-> {"error"}, deliveries |-> {"500"}]
      [] weather = "drizzle" ->
            [quotes |-> {"empty"},
             feeds |-> {[ok |-> TRUE, entries |-> <<Article("link1"), Article("link1")>>]},
             scrapes |-> {None}, generations |-> {"429"}, deliveries |-> {"transport"}]
      [] OTHER ->
            [quotes |-> {"rows"},
             feeds |-> {[ok |-> TRUE, entries |-> <<Article("link2")>>]},
             scrapes |-> {"empty"}, generations |-> {"429", "success"},
             deliveries |-> SendOutcomes]

(***************************************************************************)
(* Frames at rest                                                          *)
(***************************************************************************)

MainIdle ==
    [today |-> 0, mode |-> None,
     is_kr_holiday |-> FALSE, is_us_holiday_prev_close |-> FALSE,
     holiday_name_kr |-> NoName, holiday_name_us |-> NoName,
     market_data |-> <<>>, news_context |-> <<>>, briefing |-> None]

CheckIdle == [today |-> 0, offset |-> 0, prev_date |-> 0,
              is_kr_holiday |-> FALSE, holiday_name_kr |-> NoName]

(***************************************************************************)
(* main: the reference date (lines 542-553)                                *)
(***************************************************************************)

\* today = now, replaced by the parsed --date argument when there is one and
\* it parses; IndexError and ValueError leave today at now.
ReferenceDate(args, now) ==
    IF ~Contains(args, "--date") THEN now
    ELSE LET idx == FirstIndex(args, "--date") IN
         IF idx + 1 > Len(args) THEN now
         ELSE IF ParseDate(args[idx + 1]) = 0 THEN now
         ELSE ParseDate(args[idx + 1])

\* main up to its call of check_holidays(today).
MainStart ==
    /\ pc = "main"
    /\ m' = [m EXCEPT !.today = ReferenceDate(world.args, world.clock)]
    /\ ch' = [CheckIdle EXCEPT !.today = ReferenceDate(world.args, world.clock)]
    /\ pc' = "check_holidays"
    /\ UNCHANGED <<world, md, fn, gb, st, out>>

(***************************************************************************)
(* check_holidays (lines 15-44)                                            *)
(***************************************************************************)

\* Lines 23-34: the KR flag and name of today, then offset = 1.
CheckKR ==
    /\ pc = "check_holidays"
    /\ ch' = [ch EXCEPT
                !.is_kr_holiday = (ch.today \in world.kr_holidays),
                !.holiday_name_kr =
                    IF ch.today \in world.kr_holidays
                    THEN HolidayName("KR", ch.today) ELSE NoName,
                !.offset = 1]
    /\ pc' = "prev_weekday"
    /\ UNCHANGED <<world, m, md, fn, gb, st, out>>

\* The loop's exit test (line 37): Monday to Friday.
IsWeekdayBuggy(d) == weekday(d) < 6

IsWeekday(d) == weekday(d) < 5

\* One iteration of the loop of lines 35-39.
PrevWeekdayStep ==
    /\ pc = "prev_weekday"
    /\ LET prev == ch.today - ch.offset IN
       IF IsWeekday(prev)
       THEN /\ ch' = [ch EXCEPT !.prev_date = prev]
            /\ pc' = "us_holiday"
       ELSE /\ ch' = [ch EXCEPT !.prev_date = prev, !.offset = ch.offset + 1]
            /\ pc' = "prev_weekday"
    /\ UNCHANGED <<world, m, md, fn, gb, st, out>>

\* Lines 41-44: the US flag and name of prev_date, and the return to main
\* (line 556).
CheckUS ==
    /\ pc = "us_holiday"
    /\ m' = [m EXCEPT
                !.is_kr_holiday = ch.is_kr_holiday,
                !.is_us_holiday_prev_close = (ch.prev_date \in world.us_holidays),
                !.holiday_name_kr = ch.holiday_name_kr,
                !.holiday_name_us =
                    IF ch.prev_date \in world.us_holidays
                    THEN HolidayName("US", ch.prev_date) ELSE NoName]
    /\ pc' = "determine_mode"
    /\ UNCHANGED <<world, ch, md, fn, gb, st, out>>

(***************************************************************************)
(* main: the mode (lines 558-573) and the call of fetch_market_data        *)
(***************************************************************************)

\* Lines 561-565: the mode of a weekday number.
DefaultModeBuggy(wd) ==
    IF wd = 6 THEN "saturday" ELSE IF wd = 0 THEN "sunday" ELSE "weekday"

DefaultMode(wd) ==
    IF wd = 5 THEN "saturday" ELSE IF wd = 6 THEN "sunday" ELSE "weekday"

\* Lines 568-573: the argument after the first --mode replaces the mode;
\* a --mode with nothing after it (IndexError) leaves it alone.
ModeOverride(args, mode) ==
    IF ~Contains(args, "--mode") THEN mode
    ELSE LET idx == FirstIndex(args, "--mode") IN
         IF idx + 1 > Len(args) THEN mode ELSE args[idx + 1]

MarketIdle == [data |-> <<>>, i |-> 0]

\* Lines 559-583: the mode, then the call of fetch_market_data().
DetermineMode ==
    /\ pc = "determine_mode"
    /\ m' = [m EXCEPT !.mode = ModeOverride(world.args, DefaultMode(weekday(m.today)))]
    /\ md' = [MarketIdle EXCEPT !.i = 1]
    /\ pc' = "fetch_market_data"
    /\ UNCHANGED <<world, ch, fn, gb, st, out>>

(***************************************************************************)
(* fetch_market_data (lines 79-122)                                        *)
(***************************************************************************)

\* The tickers dictionary (lines 83-93), in insertion order.
Tickers ==
    << <<"KOSPI", "^KS11">>, <<"KOSDAQ", "^KQ11">>, <<"S&P 500", "^GSPC">>,
       <<"NASDAQ", "^IXIC">>, <<"DOW JONES", "^DJI">>, <<"RUSSELL 2000", "^RUT">>,
       <<"PHILLY SEMI", "^SOX">>, <<"USD/KRW", "KRW=X">>, <<"BTC/USD", "BTC-USD">> >>

\* A dictionary is a sequence of <<key, value>> pairs in insertion order;
\* d[key] = value replaces the value of a present key and appends an absent one.
DictSet(d, key, value) ==
    IF \E k \in 1..Len(d) : d[k][1] = key
    THEN [k \in 1..Len(d) |-> IF d[k][1] = key THEN <<key, value>> ELSE d[k]]
    ELSE Append(d, <<key, value>>)

\* Lines 100-120: the entry recorded for an instrument.
RecordQuote(data, name, outcome) ==
    IF outcome = "rows" THEN DictSet(data, name, "quote")
    ELSE DictSet(data, name, None)

\* One iteration of the loop of lines 99-120.
FetchQuote ==
    /\ pc = "fetch_market_data"
    /\ md.i <= Len(Tickers)
    /\ \E outcome \in Answers(world.weather).quotes :
        /\ md' = [md EXCEPT
                    !.data = RecordQuote(md.data, Tickers[md.i][1], outcome),
                    !.i = md.i + 1]
        /\ out' = Append(out, [svc |-> "history", arg |-> Tickers[md.i][2],
                               res |-> outcome])
    /\ UNCHANGED <<pc, world, m, ch, fn, gb, st>>

NewsIdle ==
    [mode |-> None, is_us_holiday |-> FALSE, is_kr_holiday |-> FALSE,
     queries |-> <<>>, qi |-> 0, entries |-> <<>>,
     seen_links |-> {}, combined_news_context |-> <<>>]

\* Line 122, and main's call of fetch_news (lines 583-588).
FetchMarketReturn ==
    /\ pc = "fetch_market_data"
    /\ md.i > Len(Tickers)
    /\ m' = [m EXCEPT !.market_data = md.data]
    /\ fn' = [NewsIdle EXCEPT
                !.mode = m.mode,
                !.is_us_holiday = m.is_us_holiday_prev_close,
                !.is_kr_holiday = m.is_kr_holiday]
    /\ pc' = "fetch_news"
    /\ UNCHANGED <<world, ch, md, gb, st, out>>

(***************************************************************************)
(* fetch_news (lines 156-242) and scrape_article_content (lines 124-154)   *)
(***************************************************************************)

\* The search queries, named by the English gloss the source gives each.
US_MARKET_CLOSE == "US Market Close"
WEEKLY_OVERSEAS_MARKET == "Weekly Overseas Market"
GLOBAL_ECONOMIC_NEWS == "Global Economic News"
WEEKLY_MARKET_SUMMARY == "Weekly Market Summary"
NEXT_WEEK_MARKET_SCHEDULE == "Next Week Market Schedule"
NEXT_WEEK_ECONOMIC_CALENDAR == "Next Week Economic Calendar"
WEEKLY_MARKET_OUTLOOK == "Weekly Market Outlook"
OVERSEAS_MARKET_SUMMARY == "Overseas Market Summary"
US_ECONOMIC_NEWS == "US Economic News"
MAJOR_OVERSEAS_NEWS == "Major Overseas News"
HOT_STOCKS == "Hot Stocks"
KOREA_MARKET_OUTLOOK == "Korea Market Outlook"

\* Lines 162-206.  The variant tests the US flag before the KR flag, as a
\* slip in the nesting of the weekday branch would.
SelectQueriesBuggy(mode, is_us_holiday, is_kr_holiday) ==
    IF mode = "saturday"
    THEN <<US_MARKET_CLOSE, WEEKLY_OVERSEAS_MARKET, GLOBAL_ECONOMIC_NEWS>>
    ELSE IF mode = "sunday"
    THEN <<WEEKLY_MARKET_SUMMARY, NEXT_WEEK_MARKET_SCHEDULE,
           NEXT_WEEK_ECONOMIC_CALENDAR, WEEKLY_MARKET_OUTLOOK>>
    ELSE IF is_us_holiday
    THEN <<US_ECONOMIC_NEWS, HOT_STOCKS, KOREA_MARKET_OUTLOOK>>
    ELSE IF is_kr_holiday
    THEN <<US_MARKET_CLOSE, GLOBAL_ECONOMIC_NEWS, MAJOR_OVERSEAS_NEWS>>
    ELSE <<US_MARKET_CLOSE, HOT_STOCKS, KOREA_MARKET_OUTLOOK>>

SelectQueries(mode, is_us_holiday, is_kr_holiday) ==
    IF mode = "saturday"
    THEN <<US_MARKET_CLOSE, WEEKLY_OVERSEAS_MARKET, GLOBAL_ECONOMIC_NEWS>>
    ELSE IF mode = "sunday"
    THEN <<WEEKLY_MARKET_SUMMARY, NEXT_WEEK_MARKET_SCHEDULE,
           NEXT_WEEK_ECONOMIC_CALENDAR, WEEKLY_MARKET_OUTLOOK>>
    ELSE IF is_kr_holiday
    THEN IF is_us_holiday
         THEN <<GLOBAL_ECONOMIC_NEWS, OVERSEAS_MARKET_SUMMARY, US_ECONOMIC_NEWS>>
         ELSE <<US_MARKET_CLOSE, GLOBAL_ECONOMIC_NEWS, MAJOR_OVERSEAS_NEWS>>
    ELSE IF is_us_holiday
    THEN <<US_ECONOMIC_NEWS, HOT_STOCKS, KOREA_MARKET_OUTLOOK>>
    ELSE <<US_MARKET_CLOSE, HOT_STOCKS, KOREA_MARKET_OUTLOOK>>

\* Lines 162-211: the queries, an empty context and an empty seen set.
FetchNewsStart ==
    /\ pc = "fetch_news"
    /\ fn' = [fn EXCEPT
                !.queries = SelectQueries(fn.mode, fn.is_us_holiday, fn.is_kr_holiday),
                !.qi = 1,
                !.entries = <<>>,
                !.seen_links = {},
                !.combined_news_context = <<>>]
    /\ pc' = "news_query"
    /\ UNCHANGED <<world, m, ch, md, gb, st, out>>

\* The number of entries taken per query (line 220).
TopK == 3

\* feed.entries[:3]
Take(s, n) == IF Len(s) <= n THEN s ELSE SubSeq(s, 1, n)

\* The blocks appended to combined_news_context: the delimited article of
\* lines 229-234, the fallback of line 237, and the article of lines 229-231
\* cut short by entry.published raising at line 232.
ArticleBlock(e) ==
    [form |-> "article", link |-> e.link,
     fields |-> <<"--- ARTICLE START ---", "Title", "Link", "Date", "Content",
                  "--- ARTICLE END ---">>]

FallbackBlock(e) ==
    [form |-> "fallback", link |-> e.link,
     fields |-> <<"Title", "Link", "(Content scraping failed)">>]

CutBlock(e) ==
    [form |-> "cut", link |-> e.link,
     fields |-> <<"--- ARTICLE START ---", "Title", "Link">>]

\* Lines 239-240 and 213: the handler logs the failure of a query, and the
\* loop over the queries takes the next.  The variant has the handler
\* outside the loop, so that a failure ends the loop.
AbandonQueryBuggy(f) == [f EXCEPT !.entries = <<>>, !.qi = Len(f.queries) + 1]

AbandonQuery(f) == [f EXCEPT !.entries = <<>>, !.qi = f.qi + 1]

\* Lines 213-217 and the end of the loop over the queries: fetch the feed
\* of the next query, or return the context to main (lines 242, 588), which
\* calls generate_briefing (lines 592-600).
FetchFeed ==
    /\ pc = "news_query"
    /\ fn.qi <= Len(fn.queries)
    /\ \E feed \in Answers(world.weather).feeds :
        /\ out' = Append(out, [svc |-> "rss", arg |-> fn.queries[fn.qi], res |-> ""])
        /\ IF feed.ok
           THEN /\ fn' = [fn EXCEPT !.entries = Take(feed.entries, TopK)]
                /\ pc' = "news_entry"
           ELSE /\ fn' = AbandonQuery(fn)
                /\ pc' = "news_query"
    /\ UNCHANGED <<world, m, ch, md, gb, st>>

\* Lines 221-223: whether an entry is skipped as already seen.
IsDuplicateBuggy(link, seen_links) == FALSE

IsDuplicate(link, seen_links) == link \in seen_links

\* One iteration of the loop of lines 220-237 on the next entry, or the end
\* of that loop.  An AttributeError leaves the loop for the handler of line
\* 239, which abandons the rest of the query.
ProcessEntry ==
    /\ pc = "news_entry"
    /\ IF fn.entries = <<>>
       THEN /\ fn' = [fn EXCEPT !.qi = fn.qi + 1]
            /\ pc' = "news_query"
            /\ out' = out
       ELSE LET entry == Head(fn.entries) IN
            IF IsDuplicate(entry.link, fn.seen_links)
            THEN /\ fn' = [fn EXCEPT !.entries = Tail(fn.entries)]
                 /\ pc' = "news_entry"
                 /\ out' = out
            ELSE IF entry.shape = "no_title"
            THEN /\ fn' = AbandonQuery(
                             [fn EXCEPT !.seen_links = fn.seen_links \cup {entry.link}])
                 /\ pc' = "news_query"
                 /\ out' = out
            ELSE \E content \in Answers(world.weather).scrapes :
                 /\ out' = Append(out, [svc |-> "scrape", arg |-> entry.link, res |-> ""])
                 /\ IF content = "text"
                    THEN IF entry.shape = "no_published"
                         THEN /\ fn' = AbandonQuery(
                                  [fn EXCEPT
                                     !.seen_links = fn.seen_links \cup {entry.link},
                                     !.combined_news_context =
                                         Append(fn.combined_news_context, CutBlock(entry))])
                              /\ pc' = "news_query"
                         ELSE /\ fn' = [fn EXCEPT
                                  !.seen_links = fn.seen_links \cup {entry.link},
                                  !.combined_news_context =
                                      Append(fn.combined_news_context, ArticleBlock(entry)),
                                  !.entries = Tail(fn.entries)]
                              /\ pc' = "news_entry"
                    ELSE /\ fn' = [fn EXCEPT
                             !.seen_links = fn.seen_links \cup {entry.link},
                             !.combined_news_context =
                                 Append(fn.combined_news_context, FallbackBlock(entry)),
                             !.entries = Tail(fn.entries)]
                         /\ pc' = "news_entry"
    /\ UNCHANGED <<world, m, ch, md, gb, st>>

BriefingIdle ==
    [market_data |-> <<>>, news_context |-> <<>>, mode |-> None,
     is_us_holiday |-> FALSE, is_kr_holiday |-> FALSE,
     holiday_name_kr |-> NoName, holiday_name_us |-> NoName,
     market_summary |-> <<>>, prompt_content |-> <<>>,
     model_i |-> 0, attempt |-> 0, retry_delay |-> 0]

\* Line 242, and main's call of generate_briefing (lines 588-600).
FetchNewsReturn ==
    /\ pc = "news_query"
    /\ fn.qi > Len(fn.queries)
    /\ m' = [m EXCEPT !.news_context = fn.combined_news_context]
    /\ gb' = [BriefingIdle EXCEPT
                !.market_data = m.market_data,
                !.news_context = fn.combined_news_context,
                !.mode = m.mode,
                !.is_us_holiday = m.is_us_holiday_prev_close,
                !.is_kr_holiday = m.is_kr_holiday,
                !.holiday_name_kr = m.holiday_name_kr,
                !.holiday_name_us = m.holiday_name_us]
    /\ pc' = "generate_briefing"
    /\ UNCHANGED <<world, ch, md, fn, st, out>>

(***************************************************************************)
(* generate_briefing (lines 245-482)                                       *)
(***************************************************************************)

\* Line 251.  The variant is a bare return.
MissingKeyTextBuggy == None

MissingKeyText == "Error: GEMINI_API_KEY not found in environment variables."

\* Line 482.  The variant is the function falling off its end.
ExhaustedTextBuggy == None

ExhaustedText == "Error: Failed to generate briefing with all available models."

\* Lines 262-265: the line of one instrument.  The variant leaves out an
\* instrument that has no data.
SummaryLinesBuggy(name, data) ==
    IF data # None THEN << [name |-> name, text |-> "price (glyph pct%)"] >>
    ELSE <<>>

SummaryLines(name, data) ==
    IF data # None THEN << [name |-> name, text |-> "price (glyph pct%)"] >>
    ELSE << [name |-> name, text |-> "Data Unavailable"] >>

RECURSIVE SummaryOf(_)
SummaryOf(items) ==
    IF items = <<>> THEN <<>>
    ELSE SummaryLines(Head(items)[1], Head(items)[2]) \o SummaryOf(Tail(items))

\* Lines 258-267: the heading, then one line per item of market_data, or a
\* single line when market_data is empty.
MarketSummary(market_data) ==
    << [name |-> "", text |-> "## Market Data Indices"] >>
    \o (IF market_data # <<>> THEN SummaryOf(market_data)
        ELSE << [name |-> "", text |-> "Data Unavailable"] >>)

\* Lines 274-431: the template, as the sequence of its sections.  A section
\* is named by its heading and carries the holiday name it quotes.
Section(heading, name) == [heading |-> heading, holiday |-> name]

\* The variant keeps the themes and the strategy on a KR holiday, as the
\* template of line 421 would without its condition.
PromptContentBuggy(mode, is_us_holiday, is_kr_holiday, holiday_name_kr, holiday_name_us) ==
    IF mode = "saturday"
    THEN << Section("weekly global summary report", NoName),
            Section("global market (this week's close)", NoName),
            Section("this week's global hot issues", NoName),
            Section("next week's global check points", NoName) >>
    ELSE IF mode = "sunday"
    THEN << Section("this week's review and next week's outlook", NoName),
            Section("this week's market summary", NoName),
            Section("next week's market schedule", NoName),
            Section("next week's points to watch", NoName),
            Section("next week's strategy", NoName) >>
    ELSE << Section("Korea market outlook report",
                    IF is_kr_holiday THEN holiday_name_kr ELSE NoName) >>
         \o (IF is_us_holiday
             THEN << Section("global market (US closed)", holiday_name_us) >>
             ELSE << Section("global market (US indices)", NoName) >>)
         \o << Section("today's top themes (ranked)", NoName),
                Section("trading strategy (buy / hold / avoid)", NoName) >>
         \o (IF is_kr_holiday
             THEN << Section("Korea market (closed, no forecast range)", holiday_name_kr) >>
             ELSE << Section("Korea market outlook today (forecast range)", NoName) >>)
         \o (IF is_kr_holiday
             THEN << Section("holiday check points", NoName) >>
             ELSE <<>>)
         \o << Section("conclusion", NoName) >>

PromptContent(mode, is_us_holiday, is_kr_holiday, holiday_name_kr, holiday_name_us) ==
    IF mode = "saturday"
    THEN << Section("weekly global summary report", NoName),
            Section("global market (this week's close)", NoName),
            Section("this week's global hot issues", NoName),
            Section("next week's global check points", NoName) >>
    ELSE IF mode = "sunday"
    THEN << Section("this week's review and next week's outlook", NoName),
            Section("this week's market summary", NoName),
            Section("next week's market schedule", NoName),
            Section("next week's points to watch", NoName),
            Section("next week's strategy", NoName) >>
    ELSE << Section("Korea market outlook report",
                    IF is_kr_holiday THEN holiday_name_kr ELSE NoName) >>
         \o (IF is_us_holiday
             THEN << Section("global market (US closed)", holiday_name_us) >>
             ELSE << Section("global market (US indices)", NoName) >>)
         \o (IF ~is_kr_holiday
             THEN << Section("today's top themes (ranked)", NoName),
                     Section("trading strategy (buy / hold / avoid)", NoName) >>
             ELSE <<>>)
         \o (IF is_kr_holiday
             THEN << Section("Korea market (closed, no forecast range)", holiday_name_kr) >>
             ELSE << Section("Korea market outlook today (forecast range)", NoName) >>)
         \o (IF is_kr_holiday
             THEN << Section("holiday check points", NoName) >>
             ELSE <<>>)
         \o << Section("conclusion", NoName) >>

\* Line 457.
models_to_try == <<"gemini-2.5-pro", "gemini-2.5-flash", "gemini-2.0-flash">>

\* Line 463.
max_retries == 3

\* Lines 464 and 475: the first delay and its increment, in seconds.
base_delay == 30

\* response.text of a successful call of a model.
ResponseText(model_name) ==
    CASE model_name = "gemini-2.5-pro" -> "briefing by gemini-2.5-pro"
      [] model_name = "gemini-2.5-flash" -> "briefing by gemini-2.5-flash"
      [] OTHER -> "briefing by gemini-2.0-flash"

\* Lines 249-459: without the key, return the error text to main; with it,
\* compose the prompt and enter the loop over the models.
GenerateStart ==
    /\ pc = "generate_briefing"
    /\ IF "GEMINI_API_KEY" \notin world.environ
       THEN /\ m' = [m EXCEPT !.briefing = MissingKeyText]
            /\ gb' = gb
            /\ pc' = "log_briefing"
       ELSE /\ gb' = [gb EXCEPT
                        !.market_summary = MarketSummary(gb.market_data),
                        !.prompt_content =
                            PromptContent(gb.mode, gb.is_us_holiday, gb.is_kr_holiday,
                                          gb.holiday_name_kr, gb.holiday_name_us),
                        !.model_i = 1, !.attempt = 0, !.retry_delay = base_delay]
            /\ m' = m
            /\ pc' = "generate"
    /\ UNCHANGED <<world, ch, md, fn, st, out>>

\* Lines 461-464 for the next model: a fresh attempt counter and delay.
\* The variant carries the attempt counter over to the next model.
NextModelBuggy(g) ==
    [g EXCEPT !.model_i = g.model_i + 1, !.retry_delay = base_delay]

\* A second variant carries the delay over to the next model, as it would
\* be were line 464 above the loop of line 461.
NextModelKeepsDelay(g) ==
    [g EXCEPT !.model_i = g.model_i + 1, !.attempt = 0]

NextModel(g) ==
    [g EXCEPT !.model_i = g.model_i + 1, !.attempt = 0, !.retry_delay = base_delay]

\* Lines 466-478: what an attempt leaves behind.  "returned" says whether
\* line 470 returned, "slept" the seconds slept at line 474 (0 for none).
\* The variant keeps the text of a success and goes on to the next model.
AfterAttemptBuggy(g, outcome) ==
    IF outcome = "success"
    THEN [frame |-> NextModel(g), returned |-> g.model_i = Len(models_to_try),
          slept |-> 0]
    ELSE IF outcome = "429"
    THEN [frame |-> IF g.attempt + 1 < max_retries
                    THEN [g EXCEPT !.attempt = g.attempt + 1,
                                   !.retry_delay = g.retry_delay + base_delay]
                    ELSE NextModel(g),
          returned |-> FALSE, slept |-> g.retry_delay]
    ELSE [frame |-> NextModel(g), returned |-> FALSE, slept |-> 0]

\* A second variant goes on with the same model after any failure, without
\* the break of line 478.
AfterAttemptStubborn(g, outcome) ==
    IF outcome = "success"
    THEN [frame |-> g, returned |-> TRUE, slept |-> 0]
    ELSE [frame |-> IF g.attempt + 1 < max_retries
                    THEN [g EXCEPT !.attempt = g.attempt + 1,
                                   !.retry_delay =
                                       IF outcome = "429" THEN g.retry_delay + base_delay
                                       ELSE g.retry_delay]
                    ELSE NextModel(g),
          returned |-> FALSE, slept |-> IF outcome = "429" THEN g.retry_delay ELSE 0]

AfterAttempt(g, outcome) ==
    IF outcome = "success"
    THEN [frame |-> g, returned |-> TRUE, slept |-> 0]
    ELSE IF outcome = "429"
    THEN [frame |-> IF g.attempt + 1 < max_retries
                    THEN [g EXCEPT !.attempt = g.attempt + 1,
                                   !.retry_delay = g.retry_delay + base_delay]
                    ELSE NextModel(g),
          returned |-> FALSE, slept |-> g.retry_delay]
    ELSE [frame |-> NextModel(g), returned |-> FALSE, slept |-> 0]

\* Line 471: the failures of a call that the handler catches, which are
\* all of them (except Exception).  The variant catches the rate limit
\* only, and lets any other failure leave generate_briefing and main.
CaughtBuggy(outcome) == outcome = "429"

Caught(outcome) == outcome \in {"429", "error"}

\* One attempt of lines 466-478 on the current model.  A failure the
\* handler did not catch would leave generate_briefing as an exception.
GenerateAttempt ==
    /\ pc = "generate"
    /\ gb.model_i <= Len(models_to_try)
    /\ \E outcome \in Answers(world.weather).generations :
        LET model_name == models_to_try[gb.model_i]
            after == AfterAttempt(gb, outcome)
            call == [svc |-> "generate_content", arg |-> model_name, res |-> outcome]
        IN  IF outcome # "success" /\ ~Caught(outcome)
            THEN /\ out' = Append(out, call)
                 /\ gb' = gb
                 /\ m' = m
                 /\ pc' = "raised"
            ELSE /\ gb' = after.frame
                 /\ out' = IF after.slept > 0
                           THEN out \o << call, [svc |-> "sleep", arg |-> model_name,
                                                 res |-> "", secs |-> after.slept] >>
                           ELSE Append(out, call)
                 /\ IF after.returned
                    THEN /\ m' = [m EXCEPT !.briefing = ResponseText(model_name)]
                         /\ pc' = "log_briefing"
                    ELSE /\ m' = m
                         /\ pc' = "generate"
    /\ UNCHANGED <<world, ch, md, fn, st>>

\* Line 482: every model was tried.
GenerateExhausted ==
    /\ pc = "generate"
    /\ gb.model_i > Len(models_to_try)
    /\ m' = [m EXCEPT !.briefing = ExhaustedText]
    /\ pc' = "log_briefing"
    /\ UNCHANGED <<world, ch, md, fn, gb, st, out>>

(***************************************************************************)
(* main: the log of the briefing and the delivery (lines 602-617)          *)
(***************************************************************************)

SendIdle ==
    [message |-> None,
     payload |-> [chat_id |-> None, text |-> None, parse_mode |-> None],
     result |-> None]

\* Line 610.  The variant knows the flag in its dashed form only.
IsTestRunBuggy(args) == Contains(args, "--test")

IsTestRun(args) == Contains(args, "test") \/ Contains(args, "--test")

\* Lines 492 and 614: both the bot token and the channel id are set.  The
\* variant is content with either.
HasTelegramCredentialsBuggy(environ) ==
    "TELEGRAM_BOT_TOKEN" \in environ \/ "TELEGRAM_CHANNEL_ID" \in environ

HasTelegramCredentials(environ) ==
    "TELEGRAM_BOT_TOKEN" \in environ /\ "TELEGRAM_CHANNEL_ID" \in environ

\* Lines 603-617: log the briefing, then skip the delivery (and end) or
\* call send_telegram_message(briefing).
LogBriefing ==
    /\ pc = "log_briefing"
    /\ IF IsTestRun(world.args)
       THEN /\ out' = out \o << [svc |-> "log", arg |-> m.briefing, res |-> "briefing"],
                                [svc |-> "log", arg |-> "[SKIPPED] (Test Mode)",
                                 res |-> "info"] >>
            /\ st' = st
            /\ pc' = "done"
       ELSE IF ~HasTelegramCredentials(world.environ)
       THEN /\ out' = out \o << [svc |-> "log", arg |-> m.briefing, res |-> "briefing"],
                                [svc |-> "log",
                                 arg |-> "Skipping Telegram send (Credentials not found in .env)",
                                 res |-> "info"] >>
            /\ st' = st
            /\ pc' = "done"
       ELSE /\ out' = Append(out, [svc |-> "log", arg |-> m.briefing, res |-> "briefing"])
            /\ st' = [SendIdle EXCEPT !.message = m.briefing]
            /\ pc' = "send_telegram_message"
    /\ UNCHANGED <<world, m, ch, md, fn, gb>>

(***************************************************************************)
(* send_telegram_message (lines 485-528)                                   *)
(***************************************************************************)

LogFallbackSent == "Message sent successfully to Telegram (Plain Text Fallback)."

LogSent == "Message sent successfully to Telegram."

\* Lines 489-503: without a credential, log and return False; with both,
\* build the HTML payload.
SendStart ==
    /\ pc = "send_telegram_message"
    /\ IF ~HasTelegramCredentials(world.environ)
       THEN /\ st' = [st EXCEPT !.result = "False"]
            /\ out' = Append(out, [svc |-> "log",
                         arg |-> "Error: TELEGRAM_BOT_TOKEN or TELEGRAM_CHANNEL_ID not found.",
                         res |-> "error"])
            /\ pc' = "done"
       ELSE /\ st' = [st EXCEPT !.payload =
                        [chat_id |-> "TELEGRAM_CHANNEL_ID", text |-> st.message,
                         parse_mode |-> "HTML"]]
            /\ out' = out
            /\ pc' = "send_html"
    /\ UNCHANGED <<world, m, ch, md, fn, gb>>

\* Lines 510-511: whether the failure of the first send leads to the retry.
\* The variant retries after any error status, as line 510 would without
\* the test of line 511.
RetriesPlainBuggy(outcome) == outcome \in {"400", "500"}

RetriesPlain(outcome) == outcome = "400"

\* Lines 505-514 and 523-528: the first send.
SendHtml ==
    /\ pc = "send_html"
    /\ \E outcome \in Answers(world.weather).deliveries :
        LET post == [svc |-> "sendMessage", arg |-> st.payload.text,
                     res |-> outcome, payload |-> st.payload]
        IN  IF outcome = "200"
            THEN /\ st' = [st EXCEPT !.result = "True"]
                 /\ out' = out \o << post, [svc |-> "log", arg |-> LogSent, res |-> "info"] >>
                 /\ pc' = "done"
            ELSE IF RetriesPlain(outcome)
            THEN /\ st' = [st EXCEPT !.payload.parse_mode = None]
                 /\ out' = Append(out, post)
                 /\ pc' = "send_plain"
            ELSE /\ st' = [st EXCEPT !.result = "False"]
                 /\ out' = out \o << post, [svc |-> "log", arg |-> "Error sending message",
                                            res |-> "error"] >>
                 /\ pc' = "done"
    /\ UNCHANGED <<world, m, ch, md, fn, gb>>

\* Lines 516-522: what the retry returns and logs.  The variant gives up
\* on the retry's answer and reports a failure whatever it was.
PlainRetryBuggy(outcome) ==
    [result |-> "False",
     log |-> [svc |-> "log", arg |-> "Error sending fallback message", res |-> "error"]]

\* A second variant reports a delivery whatever the retry's answer was.
PlainRetryLenient(outcome) ==
    [result |-> "True",
     log |-> [svc |-> "log", arg |-> LogFallbackSent, res |-> "info"]]

PlainRetry(outcome) ==
    IF outcome = "200"
    THEN [result |-> "True",
          log |-> [svc |-> "log", arg |-> LogFallbackSent, res |-> "info"]]
    ELSE [result |-> "False",
          log |-> [svc |-> "log", arg |-> "Error sending fallback message", res |-> "error"]]

\* Lines 515-522: the plain-text retry.
SendPlain ==
    /\ pc = "send_plain"
    /\ \E outcome \in Answers(world.weather).deliveries :
        LET post == [svc |-> "sendMessage", arg |-> st.payload.text,
                     res |-> outcome, payload |-> st.payload]
        IN  /\ st' = [st EXCEPT !.result = PlainRetry(outcome).result]
            /\ out' = out \o << post, PlainRetry(outcome).log >>
            /\ pc' = "done"
    /\ UNCHANGED <<world, m, ch, md, fn, gb>>

(***************************************************************************)
(* The world and the specifications                                        *)
(***************************************************************************)

\* The environment variables the program reads (lines 249, 489-490, 614);
\* one that is set to the empty string counts as absent, as os.getenv's
\* result is only tested for truth.
Credentials == {"GEMINI_API_KEY", "TELEGRAM_BOT_TOKEN", "TELEGRAM_CHANNEL_ID"}

WorldOf(args, clock, environ, kr_holidays, us_holidays, weather) ==
    [args |-> args, clock |-> clock, environ |-> environ,
     kr_holidays |-> kr_holidays, us_holidays |-> us_holidays,
     weather |-> weather]

\* Every frame at rest and nothing sent or logged yet.
AtRest ==
    /\ m = MainIdle
    /\ ch = CheckIdle
    /\ md = MarketIdle
    /\ fn = NewsIdle
    /\ gb = BriefingIdle
    /\ st = SendIdle
    /\ out = <<>>

\* The words a command line is made of.
Tokens == {"--mode", "--date", "--test", "test", "saturday", "holiday", "2024-01-07"}

\* --- check_holidays(today), for every date and calendar -----------------
InitHolidays ==
    /\ pc = "check_holidays"
    /\ \E d \in Dates, kr \in Calendars, us \in Calendars :
        /\ world = WorldOf(<<>>, d, Credentials, kr, us, "any")
        /\ ch = [CheckIdle EXCEPT !.today = d]
    /\ m = MainIdle
    /\ md = MarketIdle
    /\ fn = NewsIdle
    /\ gb = BriefingIdle
    /\ st = SendIdle
    /\ out = <<>>

NextHolidays == CheckKR \/ PrevWeekdayStep \/ CheckUS

SpecHolidays == InitHolidays /\ [][NextHolidays]_vars

\* --- main up to the mode, for every command line and clock --------------
InitResolve ==
    /\ pc = "main"
    /\ \E args \in ArgLists(Tokens), now \in Dates,
          kr \in {{}, Dates}, us \in {{}, CalendarDays} :
        world = WorldOf(args, now, Credentials, kr, us, "any")
    /\ AtRest

NextResolve == MainStart \/ CheckKR \/ PrevWeekdayStep \/ CheckUS \/ DetermineMode

SpecResolve == InitResolve /\ [][NextResolve]_vars

\* --- fetch_market_data() ------------------------------------------------
InitMarket ==
    /\ pc = "fetch_market_data"
    /\ world = WorldOf(<<>>, FirstDay, Credentials, {}, {}, "any")
    /\ m = MainIdle
    /\ ch = CheckIdle
    /\ md = [MarketIdle EXCEPT !.i = 1]
    /\ fn = NewsIdle
    /\ gb = BriefingIdle
    /\ st = SendIdle
    /\ out = <<>>

NextMarket == FetchQuote \/ FetchMarketReturn

SpecMarket == InitMarket /\ [][NextMarket]_vars

\* --- fetch_news(mode, is_us_holiday, is_kr_holiday) ---------------------
Modes == {"weekday", "saturday", "sunday"}

\* Every mode and pair of flags, the feeds answering well.
InitNews ==
    /\ pc = "fetch_news"
    /\ world = WorldOf(<<>>, FirstDay, Credentials, {}, {}, "fair")
    /\ \E mode \in Modes, us \in BOOLEAN, kr \in BOOLEAN :
        fn = [NewsIdle EXCEPT !.mode = mode, !.is_us_holiday = us, !.is_kr_holiday = kr]
    /\ m = MainIdle
    /\ ch = CheckIdle
    /\ md = MarketIdle
    /\ gb = BriefingIdle
    /\ st = SendIdle
    /\ out = <<>>

NextNews == FetchNewsStart \/ FetchFeed \/ ProcessEntry \/ FetchNewsReturn

SpecNews == InitNews /\ [][NextNews]_vars

\* The three queries of a plain weekday and the four of a Sunday, the feeds
\* and the article pages answering in any way.
InitAggregate ==
    /\ pc = "fetch_news"
    /\ world = WorldOf(<<>>, FirstDay, Credentials, {}, {}, "any")
    /\ \E mode \in {"weekday", "sunday"} :
        fn = [NewsIdle EXCEPT !.mode = mode]
    /\ m = MainIdle
    /\ ch = CheckIdle
    /\ md = MarketIdle
    /\ gb = BriefingIdle
    /\ st = SendIdle
    /\ out = <<>>

SpecAggregate == InitAggregate /\ [][NextNews]_vars

\* --- generate_briefing(market_data, news_context, mode, ...) ------------
\* A snapshot as fetch_market_data builds it, with the instruments of the
\* given positions unavailable.
Snapshot(missing) ==
    [k \in 1..Len(Tickers) |->
        <<Tickers[k][1], IF k \in missing THEN None ELSE "quote">>]

InitGenerate ==
    /\ pc = "generate_briefing"
    /\ \E environ \in {Credentials, Credentials \ {"GEMINI_API_KEY"}} :
        world = WorldOf(<<>>, FirstDay, environ, {}, {}, "any")
    /\ \E mode \in Modes, missing \in {{}, {2}, 1..Len(Tickers)} :
        gb = [BriefingIdle EXCEPT !.mode = mode, !.market_data = Snapshot(missing)]
    /\ m = MainIdle
    /\ ch = CheckIdle
    /\ md = MarketIdle
    /\ fn = NewsIdle
    /\ st = SendIdle
    /\ out = <<>>

NextGenerate == GenerateStart \/ GenerateAttempt \/ GenerateExhausted

SpecGenerate == InitGenerate /\ [][NextGenerate]_vars

\* Every mode and pair of holiday flags, with the names check_holidays
\* gives the holidays: a name with a set flag, None without.
InitTemplate ==
    /\ pc = "generate_briefing"
    /\ world = WorldOf(<<>>, FirstDay, Credentials, {}, {}, "any")
    /\ \E mode \in Modes, us \in BOOLEAN, kr \in BOOLEAN :
        gb = [BriefingIdle EXCEPT
                !.mode = mode, !.market_data = Snapshot({}),
                !.is_us_holiday = us, !.is_kr_holiday = kr,
                !.holiday_name_kr = IF kr THEN HolidayName("KR", FirstDay) ELSE NoName,
                !.holiday_name_us = IF us THEN HolidayName("US", FirstDay - 3) ELSE NoName]
    /\ m = MainIdle
    /\ ch = CheckIdle
    /\ md = MarketIdle
    /\ fn = NewsIdle
    /\ st = SendIdle
    /\ out = <<>>

SpecTemplate == InitTemplate /\ [][NextGenerate]_vars

\* --- send_telegram_message(message) -------------------------------------
Briefings ==
    {ResponseText(models_to_try[k]) : k \in 1..Len(models_to_try)}
    \cup {ExhaustedText, MissingKeyText}

InitSend ==
    /\ pc = "send_telegram_message"
    /\ \E environ \in SUBSET Credentials :
        world = WorldOf(<<>>, FirstDay, environ, {}, {}, "any")
    /\ \E message \in Briefings :
        st = [SendIdle EXCEPT !.message = message]
    /\ m = MainIdle
    /\ ch = CheckIdle
    /\ md = MarketIdle
    /\ fn = NewsIdle
    /\ gb = BriefingIdle
    /\ out = <<>>

NextSend == SendStart \/ SendHtml \/ SendPlain

SpecSend == InitSend /\ [][NextSend]_vars

\* --- main, from the command line to the end of the run ------------------
\* The command lines, clocks and environments of whole runs.
CommandLines ==
    { <<>>, <<"--test">>, <<"test">>, <<"--mode">>, <<"--mode", "saturday">>,
      <<"--mode", "holiday">>, <<"--date", "2024-01-07">>,
      <<"--date", "holiday", "--mode", "sunday">> }

Clocks == {FirstDay + 4, FirstDay + 5, FirstDay + 6}

Environments == {Credentials, {}} \cup {Credentials \ {c} : c \in Credentials}

Weathers == {"fair", "storm", "drizzle", "gusts"}

Init ==
    /\ pc = "main"
    /\ \E args \in CommandLines, now \in Clocks, environ \in Environments,
          kr \in {{}, Dates}, weather \in Weathers :
        world = WorldOf(args, now, environ, kr, {}, weather)
    /\ AtRest

Next ==
    \/ MainStart \/ CheckKR \/ PrevWeekdayStep \/ CheckUS \/ DetermineMode
    \/ FetchQuote \/ FetchMarketReturn
    \/ FetchNewsStart \/ FetchFeed \/ ProcessEntry \/ FetchNewsReturn
    \/ GenerateStart \/ GenerateAttempt \/ GenerateExhausted
    \/ LogBriefing
    \/ SendStart \/ SendHtml \/ SendPlain

Spec == Init /\ [][Next]_vars

\* The program is one thread that runs on while it has a step to take, and
\* every outbound call comes back with one of its outcomes.
SpecFair == Init /\ [][Next]_vars /\ WF_vars(Next)

(***************************************************************************)
(* Properties                                                              *)
(***************************************************************************)

IsGeneration(e) == e.svc = "generate_content"

IsSend(e) == e.svc = "sendMessage"

\* The calls made of the generation service and of the channel, in order.
GenerationCalls == SelectSeq(out, IsGeneration)

SendRequests == SelectSeq(out, IsSend)

Generation(model_name, outcome) ==
    [svc |-> "generate_content", arg |-> model_name, res |-> outcome]

\* C1: a successful call of the generation service is the last call made of
\* it and the only successful one, generate_briefing has returned by then,
\* and what it returned is that call's text; so when the first model
\* rate-limits three times and the second succeeds at once, the result is
\* the second model's text and the third model was never called.
C1_FirstSuccessIsReturned ==
    /\ \A i \in 1..Len(GenerationCalls) :
        GenerationCalls[i].res = "success" =>
            /\ i = Len(GenerationCalls)
            /\ pc = "log_briefing"
            /\ m.briefing = ResponseText(GenerationCalls[i].arg)
    /\ (/\ Len(GenerationCalls) >= 4
        /\ SubSeq(GenerationCalls, 1, 4) =
              << Generation("gemini-2.5-pro", "429"), Generation("gemini-2.5-pro", "429"),
                 Generation("gemini-2.5-pro", "429"),
                 Generation("gemini-2.5-flash", "success") >>)
       => /\ Len(GenerationCalls) = 4
          /\ m.briefing = "briefing by gemini-2.5-flash"
          /\ \A i \in 1..Len(out) : out[i].arg # "gemini-2.0-flash"

C1_Witness ==
    /\ pc = "log_briefing"
    /\ GenerationCalls =
          << Generation("gemini-2.5-pro", "429"), Generation("gemini-2.5-pro", "429"),
             Generation("gemini-2.5-pro", "429"),
             Generation("gemini-2.5-flash", "success") >>
    /\ m.briefing = "briefing by gemini-2.5-flash"

\* C2: when generate_briefing is over and no call of the generation service
\* succeeded, it has returned the sentinel text, and it never ends in an
\* exception, whatever the failures were.
C2_ExhaustionReturnsSentinel ==
    /\ pc # "raised"
    /\ (/\ pc = "log_briefing"
        /\ "GEMINI_API_KEY" \in world.environ
        /\ \A i \in 1..Len(GenerationCalls) : GenerationCalls[i].res # "success")
       => m.briefing = "Error: Failed to generate briefing with all available models."

C2_Witness ==
    /\ pc = "log_briefing"
    /\ GenerationCalls =
          << Generation("gemini-2.5-pro", "error"), Generation("gemini-2.5-flash", "error"),
             Generation("gemini-2.0-flash", "error") >>
    /\ m.briefing = "Error: Failed to generate briefing with all available models."

\* C3: when the HTML send was answered 400 and the plain-text retry was
\* accepted, send_telegram_message returns True (delivered) and its log
\* records the plain-text fallback; the retry carried no parse mode.
C3_FallbackDelivered ==
    (/\ pc = "done"
     /\ Len(SendRequests) = 2
     /\ SendRequests[1].res = "400"
     /\ SendRequests[2].res = "200")
    => /\ st.result = "True"
       /\ out[Len(out)] =
             [svc |-> "log", res |-> "info",
              arg |-> "Message sent successfully to Telegram (Plain Text Fallback)."]
       /\ SendRequests[1].payload.parse_mode = "HTML"
       /\ SendRequests[2].payload.parse_mode = None

C3_Witness ==
    /\ pc = "done"
    /\ Len(SendRequests) = 2
    /\ SendRequests[1].res = "400"
    /\ SendRequests[2].res = "200"
    /\ st.result = "True"

\* C4: the mode main hands to fetch_news and to generate_briefing is one of
\* weekday, saturday and sunday, also when the command line overrides it.
C4_ModeIsOneOfThree ==
    /\ fn.mode # None => fn.mode \in {"weekday", "saturday", "sunday"}
    /\ gb.mode # None => gb.mode \in {"weekday", "saturday", "sunday"}

\* C5: without the API key no call is ever made of the generation service
\* and the briefing, once generate_briefing is over, is the error text;
\* without the bot token or the channel id no send request is ever issued;
\* and such a run neither ends in an exception nor stops before its end.
MissingCredential == world.environ # Credentials

C5_MissingCredentialDegrades ==
    /\ "GEMINI_API_KEY" \notin world.environ =>
        /\ Len(GenerationCalls) = 0
        /\ pc \in {"log_briefing", "send_telegram_message", "send_html", "send_plain", "done"}
              => m.briefing = "Error: GEMINI_API_KEY not found in environment variables."
    /\ ("TELEGRAM_BOT_TOKEN" \notin world.environ
            \/ "TELEGRAM_CHANNEL_ID" \notin world.environ) =>
        /\ Len(SendRequests) = 0
        /\ pc \notin {"send_html", "send_plain"}
    /\ MissingCredential =>
        /\ pc # "raised"
        /\ pc # "done" => ENABLED Next

C5_Witness ==
    /\ pc = "done"
    /\ world.environ = {}
    /\ m.briefing = "Error: GEMINI_API_KEY not found in environment variables."
    /\ Len(out) > 0
    /\ Len(SendRequests) = 0

\* C6: the date whose US holiday flag check_holidays evaluates is the latest
\* Monday-to-Friday date before the reference date (the Friday before a
\* Saturday, Sunday or Monday, else the day before), and the backward walk
\* takes at most three steps.
IsMonToFri(d) == weekday(d) \in 0..4

LatestMonToFriBefore(d) ==
    CHOOSE p \in (d - 7)..(d - 1) :
        /\ IsMonToFri(p)
        /\ \A q \in (p + 1)..(d - 1) : ~IsMonToFri(q)

C6_PreviousWeekdayChecked ==
    /\ pc \in {"prev_weekday", "us_holiday"} => ch.offset \in 1..3
    /\ pc \in {"us_holiday", "determine_mode"} =>
        /\ ch.prev_date = ch.today - ch.offset
        /\ ch.prev_date = LatestMonToFriBefore(ch.today)
        /\ weekday(ch.today) \in {0, 5, 6} => weekday(ch.prev_date) = 4
        /\ weekday(ch.today) \in 1..4 => ch.prev_date = ch.today - 1
    /\ pc = "determine_mode" =>
        /\ m.is_us_holiday_prev_close = (LatestMonToFriBefore(ch.today) \in world.us_holidays)
        /\ m.is_us_holiday_prev_close =>
              m.holiday_name_us = HolidayName("US", LatestMonToFriBefore(ch.today))

C6_Witness ==
    /\ pc = "determine_mode"
    /\ weekday(ch.today) = 0
    /\ ch.offset = 3
    /\ weekday(ch.prev_date) = 4
    /\ m.is_us_holiday_prev_close

\* C7: the mode main computes is the argument that follows the first --mode
\* when there is one, and otherwise the mode of the reference date's
\* weekday (Monday to Friday weekday, Saturday saturday, Sunday sunday),
\* whatever the holiday flags are.
OverrideGiven(args) ==
    \E i \in 1..(Len(args) - 1) :
        args[i] = "--mode" /\ \A j \in 1..(i - 1) : args[j] # "--mode"

TheOverride(args) ==
    args[(CHOOSE i \in 1..(Len(args) - 1) :
            args[i] = "--mode" /\ \A j \in 1..(i - 1) : args[j] # "--mode") + 1]

ModeOfWeekday ==
    [wd \in 0..6 |-> CASE wd = 5 -> "saturday" [] wd = 6 -> "sunday" [] OTHER -> "weekday"]

C7_ModeFromWeekdayOrOverride ==
    pc = "fetch_market_data" =>
        m.mode = IF OverrideGiven(world.args) THEN TheOverride(world.args)
                 ELSE ModeOfWeekday[weekday(m.today)]

C7_Witness ==
    /\ pc = "fetch_market_data"
    /\ ~Contains(world.args, "--mode")
    /\ weekday(m.today) = 6
    /\ m.today # world.clock
    /\ m.is_kr_holiday
    /\ m.is_us_holiday_prev_close
    /\ m.mode = "sunday"

\* C8: the queries fetch_news selects are those of the six-row table of
\* (mode, KR holiday, US holiday before): three for a Saturday and four for
\* a Sunday whatever the flags, and for a weekday one of four lists of
\* three, no two of them equal.
QueryTable(mode, is_kr_holiday, is_us_holiday) ==
    CASE mode = "saturday" ->
            <<"US Market Close", "Weekly Overseas Market", "Global Economic News">>
      [] mode = "sunday" ->
            <<"Weekly Market Summary", "Next Week Market Schedule",
              "Next Week Economic Calendar", "Weekly Market Outlook">>
      [] mode = "weekday" /\ is_kr_holiday /\ is_us_holiday ->
            <<"Global Economic News", "Overseas Market Summary", "US Economic News">>
      [] mode = "weekday" /\ is_kr_holiday /\ ~is_us_holiday ->
            <<"US Market Close", "Global Economic News", "Major Overseas News">>
      [] mode = "weekday" /\ ~is_kr_holiday /\ is_us_holiday ->
            <<"US Economic News", "Hot Stocks", "Korea Market Outlook">>
      [] mode = "weekday" /\ ~is_kr_holiday /\ ~is_us_holiday ->
            <<"US Market Close", "Hot Stocks", "Korea Market Outlook">>

C8_QueriesFollowTable ==
    /\ pc # "fetch_news" =>
        /\ fn.queries = QueryTable(fn.mode, fn.is_kr_holiday, fn.is_us_holiday)
        /\ Len(fn.queries) = IF fn.mode = "sunday" THEN 4 ELSE 3
    /\ \A kr1 \in BOOLEAN, us1 \in BOOLEAN, kr2 \in BOOLEAN, us2 \in BOOLEAN :
        <<kr1, us1>> # <<kr2, us2>> =>
            SelectQueries("weekday", us1, kr1) # SelectQueries("weekday", us2, kr2)

C8_Witness ==
    /\ pc = "news_query"
    /\ fn.mode = "weekday"
    /\ fn.is_kr_holiday
    /\ ~fn.is_us_holiday
    /\ fn.queries = <<"US Market Close", "Global Economic News", "Major Overseas News">>

\* C9: no two articles of the news context share a link; every step of
\* fetch_news leaves the context alone or appends to it one article, that of
\* the entry being processed, whose link no earlier entry of this or an
\* earlier query had; and a link once seen stays seen.
ContextLinks(context) == {context[k].link : k \in 1..Len(context)}

C9_NoDuplicateLinks ==
    /\ \A i \in 1..Len(fn.combined_news_context), j \in 1..Len(fn.combined_news_context) :
        i # j => fn.combined_news_context[i].link # fn.combined_news_context[j].link
    /\ ContextLinks(fn.combined_news_context) \subseteq fn.seen_links
    /\ pc = "generate_briefing" => m.news_context = fn.combined_news_context

C9_AppendsInFirstSeenOrder ==
    \/ fn'.combined_news_context = fn.combined_news_context
    \/ /\ pc = "news_entry"
       /\ fn.entries # <<>>
       /\ Len(fn'.combined_news_context) = Len(fn.combined_news_context) + 1
       /\ SubSeq(fn'.combined_news_context, 1, Len(fn.combined_news_context))
             = fn.combined_news_context
       /\ fn'.combined_news_context[Len(fn'.combined_news_context)].link
             = Head(fn.entries).link
       /\ Head(fn.entries).link \notin fn.seen_links

C9_SeenStaysSeen ==
    pc # "fetch_news" => fn.seen_links \subseteq fn'.seen_links

C9_DeduplicatedFirstSeen ==
    /\ []C9_NoDuplicateLinks
    /\ [][C9_AppendsInFirstSeenOrder /\ C9_SeenStaysSeen]_vars

\* A later query brings again, as its first entry, the link of the article
\* that is first in the context, after a second article was included.
C9_Witness ==
    /\ pc = "news_entry"
    /\ fn.qi = 3
    /\ Len(fn.combined_news_context) = 2
    /\ fn.entries # <<>>
    /\ Head(fn.entries).link = fn.combined_news_context[1].link
    /\ fn.seen_links = Links

\* C10: fetch_market_data records every instrument it has fetched, in the
\* order of the tickers, as a quote or as None when the fetch raised or
\* returned nothing, and goes on to the next; the market summary composed
\* from the snapshot it returns has, after its heading, one line per
\* instrument in that order, "Data Unavailable" for those that are None.
IsQuoteFetch(e) == e.svc = "history"

QuoteFetches == SelectSeq(out, IsQuoteFetch)

C10_EveryInstrumentListed ==
    /\ pc = "fetch_market_data" =>
        /\ Len(md.data) = Len(QuoteFetches)
        /\ md.i = Len(QuoteFetches) + 1
        /\ \A k \in 1..Len(md.data) :
            /\ QuoteFetches[k].arg = Tickers[k][2]
            /\ md.data[k] = <<Tickers[k][1],
                              IF QuoteFetches[k].res = "rows" THEN "quote" ELSE None>>
    /\ pc = "fetch_news" =>
        /\ Len(QuoteFetches) = 9
        /\ Len(MarketSummary(m.market_data)) = 10
        /\ \A k \in 1..9 :
            /\ MarketSummary(m.market_data)[k + 1].name = Tickers[k][1]
            /\ QuoteFetches[k].res # "rows" <=>
                  MarketSummary(m.market_data)[k + 1].text = "Data Unavailable"

C10_Witness ==
    /\ pc = "fetch_news"
    /\ QuoteFetches[2].res = "raise"
    /\ QuoteFetches[4].res = "empty"
    /\ QuoteFetches[5].res = "rows"
    /\ MarketSummary(m.market_data)[3] = [name |-> "KOSDAQ", text |-> "Data Unavailable"]
    /\ MarketSummary(m.market_data)[5] = [name |-> "NASDAQ", text |-> "Data Unavailable"]
    /\ MarketSummary(m.market_data)[6].text # "Data Unavailable"

\* C11: the template composed for a weekday that is a KR holiday, whether
\* or not the US market was closed before, carries the closure notice with
\* the holiday's name (in its header and in its Korea section) and the
\* holiday check points, and has neither the forecast range nor the ranked
\* themes nor the buy / hold / avoid strategy.
Headings(prompt_content) ==
    {prompt_content[k].heading : k \in 1..Len(prompt_content)}

Composed == pc \in {"generate", "log_briefing"} /\ gb.prompt_content # <<>>

C11_HolidayTemplate ==
    (Composed /\ gb.mode = "weekday" /\ gb.is_kr_holiday) =>
        /\ gb.prompt_content[1] =
              [heading |-> "Korea market outlook report", holiday |-> gb.holiday_name_kr]
        /\ \E k \in 1..Len(gb.prompt_content) :
              gb.prompt_content[k] =
                  [heading |-> "Korea market (closed, no forecast range)",
                   holiday |-> gb.holiday_name_kr]
        /\ gb.holiday_name_kr # NoName
        /\ "holiday check points" \in Headings(gb.prompt_content)
        /\ "Korea market outlook today (forecast range)" \notin Headings(gb.prompt_content)
        /\ "today's top themes (ranked)" \notin Headings(gb.prompt_content)
        /\ "trading strategy (buy / hold / avoid)" \notin Headings(gb.prompt_content)

C11_Witness ==
    /\ pc = "generate"
    /\ gb.mode = "weekday"
    /\ gb.is_kr_holiday
    /\ ~gb.is_us_holiday
    /\ Len(gb.prompt_content) = 5
    /\ gb.prompt_content[3].heading = "Korea market (closed, no forecast range)"
    /\ gb.prompt_content[4].heading = "holiday check points"

\* C12: in a run whose command line has the test flag no send request is
\* ever issued and send_telegram_message is never entered; and in every
\* run, with the flag or without it, what is logged as the briefing once
\* generate_briefing is over is, exactly once, the text it returned: the
\* text of the successful call, or the error text of a missing key or of
\* the exhausted models.
TestFlagGiven == \E i \in 1..Len(world.args) : world.args[i] \in {"test", "--test"}

IsBriefingLog(e) == e.svc = "log" /\ e.res = "briefing"

BriefingLogs == SelectSeq(out, IsBriefingLog)

GeneratedText ==
    IF "GEMINI_API_KEY" \notin world.environ
    THEN "Error: GEMINI_API_KEY not found in environment variables."
    ELSE IF GenerationCalls # <<>> /\ GenerationCalls[Len(GenerationCalls)].res = "success"
    THEN ResponseText(GenerationCalls[Len(GenerationCalls)].arg)
    ELSE "Error: Failed to generate briefing with all available models."

C12_TestRunSendsNothing ==
    /\ TestFlagGiven =>
        /\ Len(SendRequests) = 0
        /\ pc \notin {"send_telegram_message", "send_html", "send_plain"}
        /\ st = SendIdle
    /\ pc \in {"main", "check_holidays", "prev_weekday", "us_holiday", "determine_mode",
               "fetch_market_data", "fetch_news", "news_query", "news_entry",
               "generate_briefing", "generate", "log_briefing"}
          => BriefingLogs = <<>>
    /\ pc \in {"send_telegram_message", "send_html", "send_plain", "done"} =>
        /\ Len(BriefingLogs) = 1
        /\ BriefingLogs[1].arg = GeneratedText
        /\ BriefingLogs[1].arg = m.briefing

C12_Witness ==
    /\ pc = "done"
    /\ world.args = <<"test">>
    /\ world.environ = Credentials
    /\ Len(GenerationCalls) = 2
    /\ BriefingLogs = << [svc |-> "log", arg |-> "briefing by gemini-2.5-pro",
                          res |-> "briefing"] >>
    /\ Len(SendRequests) = 0

\* C13: a run never ends in an exception and never stops before its end;
\* when the last send request of a finished run was not answered 200 (the
\* first answered other than 200 and 400 or failed in transport, or the
\* plain-text retry failed in any way), send_telegram_message has returned
\* False; and every send request comes after the log line of the briefing
\* and carries the logged briefing as its text.
Position(e) == CHOOSE i \in 1..Len(out) : out[i] = e

C13_DeliveryFailureIsReported ==
    /\ pc # "raised"
    /\ pc # "done" => ENABLED Next
    /\ (pc = "done" /\ SendRequests # <<>>) =>
        /\ SendRequests[Len(SendRequests)].res # "200" => st.result = "False"
        /\ SendRequests[Len(SendRequests)].res = "200" => st.result = "True"
        /\ SendRequests[1].res \in {"500", "transport"} => Len(SendRequests) = 1
    /\ \A i \in 1..Len(out) :
        IsSend(out[i]) =>
            \E j \in 1..(i - 1) :
                /\ IsBriefingLog(out[j])
                /\ out[j].arg = out[i].payload.text
                /\ out[j].arg = m.briefing

C13_Witness ==
    /\ pc = "done"
    /\ Len(SendRequests) = 2
    /\ SendRequests[1].res = "400"
    /\ SendRequests[2].res = "transport"
    /\ st.result = "False"
    /\ IsBriefingLog(out[Position(SendRequests[1]) - 1])

\* C14: no model is called more than 3 times and the service no more than
\* 9 times; the calls go through the models in priority order, those on
\* one model next to each other; after a rate limit on a model's first or
\* second attempt the next attempt is due on the same model, and the next
\* call made is on it; after a rate limit on its third attempt the next
\* model in the list is due, or the loop is over when it was the last.
ModelIndex(model_name) ==
    CHOOSE k \in 1..Len(models_to_try) : models_to_try[k] = model_name

\* The number of the attempt that call i is on its model.
AttemptNo(i) ==
    Cardinality({j \in 1..i : GenerationCalls[j].arg = GenerationCalls[i].arg})

C14_BoundedRetriesOnSameModel ==
    /\ Len(GenerationCalls) <= 9
    /\ \A i \in 1..Len(GenerationCalls) : AttemptNo(i) <= 3
    /\ \A i \in 1..(Len(GenerationCalls) - 1) :
        LET this == GenerationCalls[i]
            next == GenerationCalls[i + 1]
        IN  /\ ModelIndex(this.arg) <= ModelIndex(next.arg)
            /\ (this.res = "429" /\ AttemptNo(i) < 3) => next.arg = this.arg
            /\ (this.res = "429" /\ AttemptNo(i) = 3) =>
                  ModelIndex(next.arg) = ModelIndex(this.arg) + 1
    /\ GenerationCalls # <<>> =>
        LET n == Len(GenerationCalls)
            last == GenerationCalls[n]
        IN  /\ (last.res = "429" /\ AttemptNo(n) < 3) =>
                  /\ pc = "generate"
                  /\ gb.model_i = ModelIndex(last.arg)
                  /\ gb.attempt = AttemptNo(n)
            /\ (last.res = "429" /\ AttemptNo(n) = 3) =>
                  /\ gb.model_i = ModelIndex(last.arg) + 1
                  /\ gb.attempt = 0
                  /\ IF gb.model_i <= Len(models_to_try)
                     THEN pc = "generate"
                     ELSE pc \in {"generate", "log_briefing"}

C14_Witness ==
    /\ pc = "log_briefing"
    /\ Len(GenerationCalls) = 9
    /\ \A i \in 1..9 : GenerationCalls[i].res = "429"
    /\ \A i \in 1..9 : GenerationCalls[i].arg = models_to_try[((i - 1) \div 3) + 1]

\* C15: after a call of a model failed other than by a rate limit, that
\* model is never called again and no sleep follows the call; the next
\* call of the service, if there is one, is the first attempt on the model
\* that follows in the list, which is the one due; and the calls never go
\* back to an earlier model.
IsSleep(e) == e.svc = "sleep"

C15_OtherFailureAbandonsModel ==
    /\ \A i \in 1..Len(GenerationCalls) :
        GenerationCalls[i].res = "error" =>
            /\ \A j \in (i + 1)..Len(GenerationCalls) :
                  ModelIndex(GenerationCalls[j].arg) > ModelIndex(GenerationCalls[i].arg)
            /\ i < Len(GenerationCalls) =>
                  /\ ModelIndex(GenerationCalls[i + 1].arg)
                        = ModelIndex(GenerationCalls[i].arg) + 1
                  /\ AttemptNo(i + 1) = 1
    /\ \A i \in 1..(Len(out) - 1) :
        (IsGeneration(out[i]) /\ out[i].res = "error") => ~IsSleep(out[i + 1])
    /\ \A i \in 1..(Len(GenerationCalls) - 1) :
        ModelIndex(GenerationCalls[i].arg) <= ModelIndex(GenerationCalls[i + 1].arg)
    /\ (GenerationCalls # <<>> /\ out[Len(out)].res = "error") =>
        /\ IsGeneration(out[Len(out)])
        /\ gb.model_i = ModelIndex(out[Len(out)].arg) + 1
        /\ gb.attempt = 0
        /\ gb.retry_delay = 30

\* The first model failed on its second attempt, after a rate limit, and
\* the second model was called next.
C15_Witness ==
    /\ Len(GenerationCalls) = 3
    /\ GenerationCalls[1] = Generation("gemini-2.5-pro", "429")
    /\ GenerationCalls[2] = Generation("gemini-2.5-pro", "error")
    /\ GenerationCalls[3].arg = "gemini-2.5-flash"
    /\ Len(SelectSeq(out, IsSleep)) = 1

\* C16: every rate-limited call is followed at once by one sleep, and every
\* sleep follows a rate-limited call; the sleep after the k-th attempt on
\* a model lasts k x 30 seconds (30, 60, 90, the last after the model's
\* final attempt), so the first sleep on every model lasts 30 seconds; the
\* delay due on a model after k rate limits is (k + 1) x 30; and the
\* sleeps of a run add up to 540 seconds at most.
\* The number of calls of out[i]'s model among out[1..i].
AttemptsUpTo(i) ==
    Cardinality({j \in 1..i : IsGeneration(out[j]) /\ out[j].arg = out[i].arg})

RECURSIVE TotalSleep(_)
TotalSleep(events) ==
    IF events = <<>> THEN 0
    ELSE (IF IsSleep(Head(events)) THEN Head(events).secs ELSE 0) + TotalSleep(Tail(events))

C16_BackoffSchedule ==
    /\ \A i \in 1..Len(out) :
        (IsGeneration(out[i]) /\ out[i].res = "429") =>
            /\ i < Len(out)
            /\ IsSleep(out[i + 1])
            /\ out[i + 1].arg = out[i].arg
            /\ out[i + 1].secs = AttemptsUpTo(i) * 30
            /\ out[i + 1].secs \in {30, 60, 90}
            /\ i + 1 < Len(out) => ~IsSleep(out[i + 2])
    /\ \A i \in 1..Len(out) :
        IsSleep(out[i]) =>
            /\ i > 1
            /\ IsGeneration(out[i - 1])
            /\ out[i - 1].res = "429"
    /\ (pc = "generate" /\ gb.model_i <= Len(models_to_try)) =>
        gb.retry_delay = (gb.attempt + 1) * 30
    /\ TotalSleep(out) <= 540

C16_Witness ==
    /\ pc = "log_briefing"
    /\ Len(GenerationCalls) = 9
    /\ TotalSleep(out) = 540
    /\ out[6].secs = 90
    /\ out[7] = Generation("gemini-2.5-flash", "429")
    /\ out[8].secs = 30

\* C17: send_telegram_message issues at most two send requests; the first
\* carries the HTML parse mode; there is a second exactly when the first
\* was answered 400, and it carries the chat id and the text of the first
\* and no parse mode.
C17_OnePlainRetryAfter400 ==
    /\ Len(SendRequests) <= 2
    /\ Len(SendRequests) >= 1 =>
        SendRequests[1].payload =
            [chat_id |-> "TELEGRAM_CHANNEL_ID", text |-> st.message, parse_mode |-> "HTML"]
    /\ Len(SendRequests) = 2 =>
        /\ SendRequests[1].res = "400"
        /\ SendRequests[2].payload.chat_id = SendRequests[1].payload.chat_id
        /\ SendRequests[2].payload.text = SendRequests[1].payload.text
        /\ SendRequests[2].payload.parse_mode = None
    /\ (Len(SendRequests) = 1 /\ SendRequests[1].res = "400") => pc = "send_plain"
    /\ (Len(SendRequests) = 1 /\ SendRequests[1].res # "400") => pc = "done"
    /\ Len(SendRequests) = 2 => pc = "done"

C17_Witness ==
    /\ pc = "done"
    /\ Len(SendRequests) = 2
    /\ SendRequests[1].res = "400"
    /\ SendRequests[2].res = "400"
    /\ SendRequests[2].payload.text = ExhaustedText
    /\ st.result = "False"

\* C18: every entry taken from a fetched feed (its first three) stays due
\* for processing until its link is in the news context, so that every
\* link among them is included; no link is included twice; and every
\* included article carries its content or, when the extraction failed,
\* the failure marker.
C18_PendingUntilIncluded ==
    (pc = "news_entry") =>
        \A k \in 1..Len(fn.entries) :
            \/ fn.entries[k].link \in ContextLinks(fn'.combined_news_context)
            \/ \E j \in 1..Len(fn'.entries) : fn'.entries[j] = fn.entries[k]

C18_IncludedOnceWithContentOrMarker ==
    \A i \in 1..Len(fn.combined_news_context) :
        /\ \A j \in 1..Len(fn.combined_news_context) :
              i # j => fn.combined_news_context[i].link # fn.combined_news_context[j].link
        /\ \E f \in 1..Len(fn.combined_news_context[i].fields) :
              fn.combined_news_context[i].fields[f] \in {"Content", "(Content scraping failed)"}

C18_EveryTopLinkIncluded ==
    /\ []C18_IncludedOnceWithContentOrMarker
    /\ [][C18_PendingUntilIncluded]_vars

\* C19: every article of the news context, with its content or with the
\* failure marker, stands between the opening and the closing delimiter
\* and has the labelled fields Title, Link and Date, and then Content or
\* the failure marker.
FieldsOf(block) == {block.fields[f] : f \in 1..Len(block.fields)}

C19_DelimitedWithFourFields ==
    \A i \in 1..Len(fn.combined_news_context) :
        LET block == fn.combined_news_context[i] IN
        /\ block.fields[1] = "--- ARTICLE START ---"
        /\ block.fields[Len(block.fields)] = "--- ARTICLE END ---"
        /\ {"Title", "Link", "Date"} \subseteq FieldsOf(block)
        /\ "Content" \in FieldsOf(block) \/ "(Content scraping failed)" \in FieldsOf(block)

\* C20: the queries are fetched one after the other in the order of the
\* list, each once, whatever became of the queries before it: one whose
\* fetch or processing failed is followed by the next, and fetch_news
\* returns only when every query was fetched; and no step takes from the
\* news context or changes what it holds, a step that fails included.
IsFeedFetch(e) == e.svc = "rss"

FeedFetches == SelectSeq(out, IsFeedFetch)

C20_EveryQueryFetched ==
    /\ pc = "news_query" => Len(FeedFetches) = fn.qi - 1
    /\ pc = "news_entry" => Len(FeedFetches) = fn.qi
    /\ pc \in {"news_query", "news_entry", "generate_briefing"} =>
        /\ Len(FeedFetches) <= Len(fn.queries)
        /\ \A k \in 1..Len(FeedFetches) : FeedFetches[k].arg = fn.queries[k]
    /\ pc = "generate_briefing" =>
        /\ Len(FeedFetches) = Len(fn.queries)
        /\ m.news_context = fn.combined_news_context

C20_ContextOnlyGrows ==
    /\ Len(fn'.combined_news_context) >= Len(fn.combined_news_context)
    /\ SubSeq(fn'.combined_news_context, 1, Len(fn.combined_news_context))
          = fn.combined_news_context
    /\ (pc \in {"news_query", "news_entry"} /\ fn'.qi # fn.qi) =>
          /\ fn'.qi = fn.qi + 1
          /\ pc' = "news_query"

C20_FailureSkipsOneQueryOnly ==
    /\ []C20_EveryQueryFetched
    /\ [][C20_ContextOnlyGrows]_vars

\* The processing of a query failed on an entry without a date, and a
\* later query was fetched and brought a further article.
C20_Witness ==
    /\ pc = "generate_briefing"
    /\ Len(FeedFetches) = 3
    /\ Len(fn.combined_news_context) = 2
    /\ fn.combined_news_context[1].form = "cut"
    /\ fn.combined_news_context[2].form = "article"

\* C21: whenever send_telegram_message is entered, its message is the
\* string generate_briefing returned, and every send request carries that
\* string as its text: the text of the successful call, the text of the
\* exhausted models after calls that all failed, or the text of the
\* missing key; so a failed generation is sent to the channel like a
\* briefing.
Delivering == pc \in {"send_telegram_message", "send_html", "send_plain"}

C21_ReturnedTextIsSent ==
    /\ Delivering =>
        /\ st.message = GeneratedText
        /\ st.message \in
              {"briefing by gemini-2.5-pro", "briefing by gemini-2.5-flash",
               "briefing by gemini-2.0-flash",
               "Error: Failed to generate briefing with all available models.",
               "Error: GEMINI_API_KEY not found in environment variables."}
    /\ \A i \in 1..Len(SendRequests) :
        /\ SendRequests[i].payload.text = GeneratedText
        /\ SendRequests[i].arg = GeneratedText
    /\ (pc = "log_briefing" /\ ~TestFlagGiven
            /\ {"TELEGRAM_BOT_TOKEN", "TELEGRAM_CHANNEL_ID"} \subseteq world.environ)
          => /\ m.briefing = GeneratedText
             /\ ENABLED LogBriefing

\* Without the API key and with the channel's credentials, the error text
\* was sent and accepted.
C21_Witness ==
    /\ pc = "done"
    /\ "GEMINI_API_KEY" \notin world.environ
    /\ Len(SendRequests) = 1
    /\ SendRequests[1].payload.text =
          "Error: GEMINI_API_KEY not found in environment variables."
    /\ SendRequests[1].res = "200"
    /\ st.result = "True"

\* C22: every run of main comes to its end, whatever the outbound calls
\* answer; and at its end the briefing was produced and logged, and the
\* delivery was skipped (test flag, or a credential of the channel
\* missing), accepted, or reported as failed.
AtTerminalOutcome ==
    /\ pc = "done"
    /\ Len(BriefingLogs) = 1
    /\ m.briefing = GeneratedText
    /\ \/ /\ st.result = "True"
          /\ SendRequests[Len(SendRequests)].res = "200"
       \/ /\ st.result = "False"
          /\ SendRequests[Len(SendRequests)].res # "200"
          /\ out[Len(out)].res = "error"
       \/ /\ st = SendIdle
          /\ SendRequests = <<>>
          /\ TestFlagGiven \/ ~({"TELEGRAM_BOT_TOKEN", "TELEGRAM_CHANNEL_ID"}
                                    \subseteq world.environ)

C22_RunTerminates ==
    /\ <>AtTerminalOutcome
    /\ [](pc = "done" => AtTerminalOutcome)

\* A run that took every retry there is: nine rate limits, then the
\* sentinel sent, refused with 400 and refused again as plain text.
C22_Witness ==
    /\ AtTerminalOutcome
    /\ Len(GenerationCalls) = 9
    /\ Len(SendRequests) = 2
    /\ st.result = "False"
    /\ m.briefing = "Error: Failed to generate briefing with all available models."

====
